---------------------------- MODULE Spec2Model ----------------------------
(***************************************************************************)
(* Model of service/src/temp.rs: get_temp (run `vcgencmd measure_temp`,    *)
(* parse its standard output into an f32) and get_pwm (map an f32          *)
(* temperature to a u8 duty cycle).                                        *)
(*                                                                         *)
(* f32 values are modelled exactly: a finite value is neg, m, e with       *)
(* magnitude m * 2^e, m < 2^24, kept normalised as IEEE-754 binary32       *)
(* keeps it; arithmetic computes the exact result and rounds it to         *)
(* nearest, ties to even.                                                  *)
(***************************************************************************)
EXTENDS Integers, Sequences, FiniteSets, TLC

(***************************************************************************)
(* Bounds of the model.                                                    *)
(***************************************************************************)
\* Temperatures handed to get_pwm include every multiple of 2^-GridBits
\* degrees between GridLo and GridHi.
GridBits == 2
\* ... and every f32 within MaxUlps units in the last place of an anchor.
MaxUlps == 2
\* Tool outputs include every byte string over Alphabet of length <= MaxLen.
MaxLen == 4
\* Concurrent callers.
NumThreads == 2

(***************************************************************************)
(* IEEE-754 binary32.                                                      *)
(***************************************************************************)
MantBits == 24
MinExp == -149
MaxExp == 104

NaN == [cls |-> "nan", neg |-> FALSE, m |-> 0, e |-> 0]
Inf(neg) == [cls |-> "inf", neg |-> neg, m |-> 0, e |-> 0]
Zero(neg) == [cls |-> "fin", neg |-> neg, m |-> 0, e |-> MinExp]

IsNaN(a) == a.cls = "nan"
IsFinite(a) == a.cls = "fin"

RECURSIVE BitLen(_)
\* Number of binary digits of the natural number n.
BitLen(n) == IF n = 0 THEN 0 ELSE 1 + BitLen(n \div 2)

\* n * 2^e (n a natural number below 2^31) rounded to the nearest binary32,
\* ties to even; overflow gives an infinity, underflow a subnormal or zero.
RoundF32(neg, n, e) ==
    IF n = 0 THEN Zero(neg)
    ELSE LET bl == BitLen(n)
             want == bl - MantBits
             sh == IF MinExp - e > want THEN MinExp - e ELSE want
         IN  IF sh > bl + 1 THEN Zero(neg)
             ELSE IF sh <= 0
             THEN IF e + sh > MaxExp THEN Inf(neg)
                  ELSE [cls |-> "fin", neg |-> neg, m |-> n * 2^(-sh), e |-> e + sh]
             ELSE LET q == n \div 2^sh
                      r == n % 2^sh
                      half == 2^(sh - 1)
                      up == r > half \/ (r = half /\ q % 2 = 1)
                      q1 == IF up THEN q + 1 ELSE q
                      m2 == IF q1 = 2^MantBits THEN q1 \div 2 ELSE q1
                      e2 == IF q1 = 2^MantBits THEN e + sh + 1 ELSE e + sh
                  IN  IF e2 > MaxExp THEN Inf(neg)
                      ELSE [cls |-> "fin", neg |-> neg, m |-> m2, e |-> e2]

\* The f32 nearest to n * 2^e, n an integer.
F(n, e) == IF n < 0 THEN RoundF32(TRUE, -n, e) ELSE RoundF32(FALSE, n, e)

\* Order of magnitudes: normalised values compare by exponent, then mantissa.
MagLt(a, b) ==
    IF a.cls = "inf" THEN FALSE
    ELSE IF b.cls = "inf" THEN TRUE
    ELSE a.e < b.e \/ (a.e = b.e /\ a.m < b.m)

IsZero(a) == a.cls = "fin" /\ a.m = 0

\* a < b on f32: false when either is NaN; -0.0 and 0.0 are equal.
FLt(a, b) ==
    IF IsNaN(a) \/ IsNaN(b) THEN FALSE
    ELSE IF IsZero(a) /\ IsZero(b) THEN FALSE
    ELSE IF a.neg /\ ~b.neg THEN TRUE
    ELSE IF ~a.neg /\ b.neg THEN FALSE
    ELSE IF a.neg THEN MagLt(b, a)
    ELSE MagLt(a, b)

FEq(a, b) ==
    IF IsNaN(a) \/ IsNaN(b) THEN FALSE
    ELSE (IsZero(a) /\ IsZero(b)) \/ a = b

FLe(a, b) == FLt(a, b) \/ FEq(a, b)
FGe(a, b) == FLe(b, a)

RECURSIVE OddPart(_)
\* n with its trailing zero bits removed (n > 0).
OddPart(n) == IF n % 2 = 0 THEN OddPart(n \div 2) ELSE n

RECURSIVE TwoExp(_)
\* Number of trailing zero bits of n (n > 0).
TwoExp(n) == IF n % 2 = 0 THEN 1 + TwoExp(n \div 2) ELSE 0

\* a - b on f32: the exact difference rounded to nearest-even. The exact
\* difference is formed on the smaller exponent; operands whose exponents
\* differ by more than 6 would leave 31 bits and are outside the model
\* (get_pwm subtracts 40.0 only from values between 40.0 and 60.0).
FSub(a, b) ==
    IF IsNaN(a) \/ IsNaN(b) THEN NaN
    ELSE IF a.cls = "inf" /\ b.cls = "inf"
         THEN IF a.neg = b.neg THEN NaN ELSE a
    ELSE IF a.cls = "inf" THEN a
    ELSE IF b.cls = "inf" THEN Inf(~b.neg)
    ELSE LET e == IF a.e < b.e THEN a.e ELSE b.e
             x == (IF a.neg THEN -1 ELSE 1) * a.m * 2^(a.e - e)
             y == (IF b.neg THEN -1 ELSE 1) * b.m * 2^(b.e - e)
         IN  IF x - y = 0 THEN Zero(FALSE) ELSE F(x - y, e)

\* a * b on f32: the exact product rounded to nearest-even. The product is
\* formed on the odd parts of the mantissas, which must leave it below 2^31
\* (12.75 is 51 * 2^-2, so any f32 times 12.75 does).
FMul(a, b) ==
    IF IsNaN(a) \/ IsNaN(b) THEN NaN
    ELSE IF a.cls = "inf" \/ b.cls = "inf"
         THEN IF IsZero(a) \/ IsZero(b) THEN NaN ELSE Inf(a.neg # b.neg)
    ELSE IF IsZero(a) \/ IsZero(b) THEN Zero(a.neg # b.neg)
    ELSE RoundF32(a.neg # b.neg, OddPart(a.m) * OddPart(b.m),
                  a.e + TwoExp(a.m) + b.e + TwoExp(b.m))

\* f32::ceil: the least integral value not below a, as an f32.
FCeil(a) ==
    IF ~IsFinite(a) \/ IsZero(a) \/ a.e >= 0 THEN a
    ELSE IF -a.e >= MantBits
         THEN IF a.neg THEN Zero(TRUE) ELSE F(1, 0)
    ELSE LET q == a.m \div 2^(-a.e)
             r == a.m % 2^(-a.e)
         IN  IF a.neg
             THEN IF q = 0 THEN Zero(TRUE) ELSE RoundF32(TRUE, q, 0)
             ELSE RoundF32(FALSE, IF r = 0 THEN q ELSE q + 1, 0)

U8Max == 255

\* `as u8` on an f32: truncates toward zero and saturates; NaN gives 0.
AsU8(a) ==
    IF IsNaN(a) THEN 0
    ELSE IF a.neg THEN 0
    ELSE IF a.cls = "inf" THEN U8Max
    ELSE IF a.e >= 0
         THEN IF a.m = 0 THEN 0
              ELSE IF a.m > U8Max \/ a.e > 8 THEN U8Max
              ELSE IF a.m * 2^a.e > U8Max THEN U8Max ELSE a.m * 2^a.e
    ELSE IF -a.e >= MantBits THEN 0
    ELSE IF a.m \div 2^(-a.e) > U8Max THEN U8Max ELSE a.m \div 2^(-a.e)

(***************************************************************************)
(* get_pwm                                                                 *)
(***************************************************************************)
\* The literals of get_pwm: 40.0, 60.0 and 12.75 = 51/4.
PwmFloor == F(40, 0)
PwmCeiling == F(60, 0)
\* A slope of 13.0 in place of 12.75.
PwmSlopeSteep == F(13, 0)
PwmSlope == F(51, -2)

\* The ramp of line 84 before the narrowing: ((temp - 40.0) * 12.75).ceil().
Ramp(temp) == FCeil(FMul(FSub(temp, PwmFloor), PwmSlope))

\* get_pwm with the two clamped outputs exchanged.
get_pwm_inverted(temp) ==
    IF FLe(temp, PwmFloor) THEN U8Max
    ELSE IF FGe(temp, PwmCeiling) THEN 0
    ELSE AsU8(Ramp(temp))

\* get_pwm without .ceil(): the narrowing truncates.
get_pwm_trunc(temp) ==
    IF FLe(temp, PwmFloor) THEN 0
    ELSE IF FGe(temp, PwmCeiling) THEN U8Max
    ELSE AsU8(FMul(FSub(temp, PwmFloor), PwmSlope))

\* get_pwm with the ramp falling from 60.0: (60.0 - temp) * 12.75.
get_pwm_falling(temp) ==
    IF FLe(temp, PwmFloor) THEN 0
    ELSE IF FGe(temp, PwmCeiling) THEN U8Max
    ELSE AsU8(FCeil(FMul(FSub(PwmCeiling, temp), PwmSlope)))

get_pwm(temp) ==
    IF FLe(temp, PwmFloor) THEN 0
    ELSE IF FGe(temp, PwmCeiling) THEN U8Max
    ELSE AsU8(Ramp(temp))

(***************************************************************************)
(* Text.  A str is a sequence of characters, each a one-character string;  *)
(* the bytes of the tool's output are the ASCII characters themselves and  *)
(* BadByte, a byte that is never valid in UTF-8.                           *)
(***************************************************************************)
BadByte == "<FF>"
Replacement == "<U+FFFD>"
Whitespace == {" ", "\n", "\t", "\r"}
Digits == <<"0", "1", "2", "3", "4", "5", "6", "7", "8", "9">>
DigitChars == {Digits[i] : i \in 1..10}
DigitValue(ch) == (CHOOSE i \in 1..10 : Digits[i] = ch) - 1

None == <<>>
Some(x) == <<x>>
\* Option::unwrap_or and Result::unwrap_or.
unwrap_or(opt, default) == IF opt = None THEN default ELSE opt[1]

\* String::from_utf8_lossy: invalid bytes become U+FFFD, the rest is kept.
from_utf8_lossy(bytes) ==
    [i \in 1..Len(bytes) |-> IF bytes[i] = BadByte THEN Replacement ELSE bytes[i]]

RECURSIVE SplitFrom(_, _, _, _)
\* The segments of s from position i on, cur being the segment under way.
SplitFrom(s, ch, i, cur) ==
    IF i > Len(s) THEN <<cur>>
    ELSE IF s[i] = ch THEN <<cur>> \o SplitFrom(s, ch, i + 1, <<>>)
    ELSE SplitFrom(s, ch, i + 1, Append(cur, s[i]))

\* str::split(char): the segments between occurrences of ch, in order; a
\* string without ch (the empty string too) yields itself as only segment.
split(s, ch) == SplitFrom(s, ch, 1, <<>>)

\* Iterator::next in place of next_back: the first segment.
next_front(segs) == IF segs = <<>> THEN None ELSE Some(segs[1])
\* DoubleEndedIterator::next_back on the segments: the last one.
next_back(segs) == IF segs = <<>> THEN None ELSE Some(segs[Len(segs)])
\* Iterator::next on the segments: the first one.
next(segs) == IF segs = <<>> THEN None ELSE Some(segs[1])

RECURSIVE TrimStart(_)
TrimStart(s) ==
    IF s # <<>> /\ s[1] \in Whitespace THEN TrimStart(Tail(s)) ELSE s
RECURSIVE TrimEnd(_)
TrimEnd(s) ==
    IF s # <<>> /\ s[Len(s)] \in Whitespace
    THEN TrimEnd(SubSeq(s, 1, Len(s) - 1)) ELSE s
\* str::trim: leading and trailing whitespace removed.
trim(s) == TrimEnd(TrimStart(s))

(***************************************************************************)
(* str::parse::<f32>.  Accepted: an optional sign, then either digits with *)
(* an optional decimal point and at least one digit, or one of the words   *)
(* inf, infinity, nan in any letter case.  Exponent notation (e, E) is not *)
(* among the characters of the modelled outputs and is not modelled.       *)
(***************************************************************************)
Lower(ch) ==
    CASE ch = "I" -> "i" [] ch = "N" -> "n" [] ch = "F" -> "f"
      [] ch = "A" -> "a" [] ch = "T" -> "t" [] ch = "Y" -> "y"
      [] OTHER -> ch
LowerStr(s) == [i \in 1..Len(s) |-> Lower(s[i])]

WordInf == <<"i", "n", "f">>
WordInfinity == <<"i", "n", "f", "i", "n", "i", "t", "y">>
WordNan == <<"n", "a", "n">>

\* Digits, at most one '.', at least one digit.
IsDecimal(s) ==
    /\ \A i \in 1..Len(s) : s[i] \in DigitChars \cup {"."}
    /\ Cardinality({i \in 1..Len(s) : s[i] = "."}) <= 1
    /\ \E i \in 1..Len(s) : s[i] \in DigitChars

RECURSIVE DigitsValue(_)
\* The natural number written by the digits of s, '.' skipped.
DigitsValue(s) ==
    IF s = <<>> THEN 0
    ELSE LET init == SubSeq(s, 1, Len(s) - 1)
             ch == s[Len(s)]
         IN  IF ch = "." THEN DigitsValue(init)
             ELSE 10 * DigitsValue(init) + DigitValue(ch)

\* Number of digits after the '.', 0 without one.
FracDigits(s) ==
    IF \E i \in 1..Len(s) : s[i] = "."
    THEN Len(s) - (CHOOSE i \in 1..Len(s) : s[i] = ".")
    ELSE 0

RECURSIVE DivBits(_, _, _, _)
\* (q + r/p) * 2^e, r < p, as <<n, e'>> with n * 2^e' within one sticky
\* bit of it and n of at least 26 bits: enough for a correct rounding.
DivBits(q, r, p, e) ==
    IF q >= 2^(MantBits + 1)
    THEN <<2 * q + (IF r > 0 THEN 1 ELSE 0), e - 1>>
    ELSE DivBits(2 * q + (IF 2 * r >= p THEN 1 ELSE 0),
                 IF 2 * r >= p THEN 2 * r - p ELSE 2 * r, p, e - 1)

\* The f32 nearest to the decimal s (correctly rounded, ties to even).
DecToF32(neg, s) ==
    LET d == DigitsValue(s)
        p == 10^FracDigits(s)
    IN  IF d = 0 THEN Zero(neg)
        ELSE LET ne == DivBits(d \div p, d % p, p, 0)
             IN  RoundF32(neg, ne[1], ne[2])

\* Ok(value) as Some(value), Err(ParseFloatError) as None.
parse_f32(s) ==
    IF s = <<>> THEN None
    ELSE LET neg == s[1] = "-"
             body == IF s[1] \in {"+", "-"} THEN Tail(s) ELSE s
         IN  IF body = <<>> THEN None
             ELSE IF IsDecimal(body) THEN Some(DecToF32(neg, body))
             ELSE IF LowerStr(body) = WordNan THEN Some(NaN)
             ELSE IF LowerStr(body) \in {WordInf, WordInfinity} THEN Some(Inf(neg))
             ELSE None

(***************************************************************************)
(* get_temp                                                                *)
(***************************************************************************)
Ok(v) == [ok |-> TRUE, val |-> v]
Err(e) == [ok |-> FALSE, err |-> e]

\* Command::output() followed by a check of the exit status.
CommandOutputChecked(p) ==
    IF p.launched /\ p.status = 0
    THEN Ok([stdout |-> p.stdout, stderr |-> p.stderr, status |-> p.status])
    ELSE Err("io::Error")

\* Command::new("vcgencmd").arg("measure_temp").output(): an io::Error when
\* the process cannot be started, else everything the process left behind.
CommandOutput(p) ==
    IF p.launched
    THEN Ok([stdout |-> p.stdout, stderr |-> p.stderr, status |-> p.status])
    ELSE Err("io::Error")

\* The segment get_temp parses: after the last '=', before the first quote.
Segment(bytes) ==
    LET text == from_utf8_lossy(bytes)
        last == unwrap_or(next_back(split(text, "=")), <<"0", "'", "c">>)
    IN  trim(unwrap_or(next(split(last, "'")), <<"0">>))

\* unwrap_or(f32::NAN) in place of unwrap_or(0.0).
RateNaNDefault(bytes) == unwrap_or(parse_f32(Segment(bytes)), NaN)

\* The value get_temp computes from the captured standard output.
Rate(bytes) == unwrap_or(parse_f32(Segment(bytes)), Zero(FALSE))

(***************************************************************************)
(* Inputs.                                                                 *)
(***************************************************************************)
GridLo == 36
GridHi == 64

\* f32 values whose neighbourhoods are explored: the two thresholds, the
\* samples 50.0 and 59.9, and two temperatures at which the exact value of
\* (temp - 40.0) * 12.75 lies less than half an f32 step above an integer
\* (40 + 719611 * 2^-18 = 42.745098..., 40 + 4913915 * 2^-18 = 58.745098...).
Anchors ==
    {PwmFloor, PwmCeiling, F(50, 0), F(15702426, -18),
     F(11205371, -18), F(15399675, -18)}

\* The k-th f32 above (below, k < 0) the anchor a, in steps of a's last place.
Step(a, k) == F((IF a.neg THEN -1 ELSE 1) * a.m + k, a.e)

\* Far values: not a number, the infinities, the zeros, the largest and the
\* smallest finite f32, and some ordinary cold and hot temperatures.
Extremes ==
    {NaN, Inf(FALSE), Inf(TRUE), Zero(FALSE), Zero(TRUE),
     RoundF32(FALSE, 2^MantBits - 1, MaxExp), RoundF32(TRUE, 2^MantBits - 1, MaxExp),
     RoundF32(FALSE, 1, MinExp), F(-40, 0), F(20, 0), F(85, 0), F(1000, 0)}

\* The temperatures get_pwm is called with.
Temps ==
    {F(k, -GridBits) : k \in (GridLo * 2^GridBits)..(GridHi * 2^GridBits)}
        \cup {Step(a, k) : a \in Anchors, k \in (-MaxUlps)..MaxUlps}
        \cup Extremes

\* Bytes of the exhaustively explored tool outputs.
Alphabet == {"=", "'", "\n", "5", ".", "-", "i", "n", "f"}

\* Some whole outputs of the tool, well-formed and not.
SampleWarm == <<"t", "e", "m", "p", "=", "4", "8", ".", "3", "'", "C", "\n">>
SampleHot == <<"t", "e", "m", "p", "=", "5", "9", ".", "9", "'", "C", "\n">>
SampleGarbage == <<"g", "a", "r", "b", "a", "g", "e">>
SampleMulti ==
    <<"a", "=", "b", "=", " ", "5", "0", ".", "0", "\t", "'", "C", "'", "7", "'">>
SampleNaN == <<"t", "e", "m", "p", "=", "N", "a", "N", "'", "C", "\n">>

Samples ==
    {SampleWarm, SampleHot, SampleGarbage, SampleMulti, SampleNaN,
     <<"t", "e", "m", "p", "=", "4", "0", ".", "0", "'", "C", "\n">>,
     <<"t", "e", "m", "p", "=", "+", "I", "n", "f", "i", "n", "i", "t", "y", "'", "C">>,
     <<"t", "e", "m", "p", "=", "4", BadByte, "'", "C", "\n">>,
     <<"t", "e", "m", "p", "=", "4", "7", ".", "2">>}

\* The standard outputs the tool may write.
Outputs == UNION {[1..n -> Alphabet] : n \in 0..MaxLen} \cup Samples

Stderrs == {<<>>, <<"V", "C", "H", "I", " ", "e", "r", "r", "o", "r", "\n">>}
Statuses == {0, 1}

\* The outcomes of starting the tool: it cannot be started, or it runs and
\* leaves a standard output, a standard error and an exit status.
NotLaunched == [launched |-> FALSE, stdout |-> <<>>, stderr |-> <<>>, status |-> 0]
Procs ==
    {NotLaunched} \cup
    [launched : {TRUE}, stdout : Outputs, stderr : Stderrs, status : Statuses]

\* The outcomes explored under concurrency.
FewProcs ==
    {NotLaunched} \cup
    [launched : {TRUE}, stdout : {<<>>, SampleWarm, SampleHot, SampleGarbage},
     stderr : Stderrs, status : Statuses]

(***************************************************************************)
(* State: per calling thread, where it is, the process its get_temp call   *)
(* started, get_temp's local stdout, get_temp's return value, and the      *)
(* argument and the return value of its get_pwm call.                      *)
(***************************************************************************)
VARIABLES pc, proc, stdout, ret, temp, duty

vars == <<pc, proc, stdout, ret, temp, duty>>

Threads == 1..NumThreads
\* The two callers whose get_pwm calls are compared.
Pair == {1, 2}

Unset == "unset"

Init ==
    /\ pc = [c \in Threads |-> "idle"]
    /\ proc = [c \in Threads |-> Unset]
    /\ stdout = [c \in Threads |-> Unset]
    /\ ret = [c \in Threads |-> Unset]
    /\ temp = [c \in Threads |-> Unset]
    /\ duty = [c \in Threads |-> Unset]

\* One buffer for the captured output, shared by all callers.
CaptureShared(c, out) == [x \in DOMAIN stdout |-> out.stdout]

\* The destructuring `let Output { stdout, stderr: _, status: _ } = ...`:
\* the caller's own local takes the captured standard output.
Capture(c, out) == [stdout EXCEPT ![c] = out.stdout]

\* get_temp up to the return of Command::output() (lines 20-27): the only
\* point where the caller is suspended.  `?` returns the launch error.  The
\* process the call starts ends in one of the outcomes of ps.
Spawn(c, ps) ==
    /\ pc[c] = "idle"
    /\ \E p \in ps :
        /\ proc' = [proc EXCEPT ![c] = p]
        /\ LET r == CommandOutput(p)
           IN  IF r.ok
               THEN /\ stdout' = Capture(c, r.val)
                    /\ pc' = [pc EXCEPT ![c] = "captured"]
                    /\ ret' = ret
               ELSE /\ ret' = [ret EXCEPT ![c] = Err(r.err)]
                    /\ pc' = [pc EXCEPT ![c] = "failed"]
                    /\ stdout' = stdout
    /\ UNCHANGED <<temp, duty>>

\* The rest of get_temp (lines 28-38): parse the captured output, return Ok.
Parse(c) ==
    /\ pc[c] = "captured"
    /\ ret' = [ret EXCEPT ![c] = Ok(Rate(stdout[c]))]
    /\ pc' = [pc EXCEPT ![c] = "returned"]
    /\ UNCHANGED <<proc, stdout, temp, duty>>

\* The caller of the documentation's example (lines 77-78) hands the
\* temperature get_temp returned to get_pwm.
Pwm(c) ==
    /\ pc[c] = "returned"
    /\ temp' = [temp EXCEPT ![c] = ret[c].val]
    /\ duty' = [duty EXCEPT ![c] = get_pwm(ret[c].val)]
    /\ pc' = [pc EXCEPT ![c] = "done"]
    /\ UNCHANGED <<proc, stdout, ret>>

\* The caller polls again: the locals of the finished calls are gone.
Again(c) ==
    /\ pc[c] \in {"done", "failed"}
    /\ pc' = [pc EXCEPT ![c] = "idle"]
    /\ proc' = [proc EXCEPT ![c] = Unset]
    /\ stdout' = [stdout EXCEPT ![c] = Unset]
    /\ ret' = [ret EXCEPT ![c] = Unset]
    /\ temp' = [temp EXCEPT ![c] = Unset]
    /\ duty' = [duty EXCEPT ![c] = Unset]

\* A caller calls get_pwm once, with a temperature of ts.
CallPwm(c, ts) ==
    /\ pc[c] = "idle"
    /\ \E t \in ts :
        /\ temp' = [temp EXCEPT ![c] = t]
        /\ duty' = [duty EXCEPT ![c] = get_pwm(t)]
    /\ pc' = [pc EXCEPT ![c] = "called"]
    /\ UNCHANGED <<proc, stdout, ret>>

\* Concurrent callers, each polling: get_temp, then get_pwm, again.
Next ==
    \E c \in Threads :
        \/ Spawn(c, FewProcs)
        \/ Parse(c)
        \/ Pwm(c)
        \/ Again(c)

Spec == Init /\ [][Next]_vars

\* get_pwm alone, on every temperature of Temps, by two callers.
NextPwm == \E c \in Pair : CallPwm(c, Temps)

SpecPwm == Init /\ [][NextPwm]_vars

\* get_temp alone, on every outcome of Procs, by one caller.
NextTemp == Spawn(1, Procs) \/ Parse(1)

SpecTemp == Init /\ [][NextTemp]_vars

(***************************************************************************)
(* Properties of get_pwm, checked under SpecPwm.                           *)
(***************************************************************************)
Called(c) == pc[c] = "called"

\* temp lies strictly between the two thresholds.
OnRamp(t) == FLt(PwmFloor, t) /\ FLt(t, PwmCeiling)

\* C1: every call of get_pwm with a temperature <= 40.0 (40.0 itself, zero,
\* negative values, minus infinity) returns 0.
C1_BelowFloorIsOff ==
    \A c \in Pair : Called(c) /\ FLe(temp[c], PwmFloor) => duty[c] = 0

C1_Witness ==
    /\ \E c \in Pair : Called(c) /\ temp[c] = PwmFloor /\ duty[c] = 0
    /\ \E c \in Pair : Called(c) /\ temp[c] = F(-40, 0) /\ duty[c] = 0

\* C2: every call of get_pwm with a temperature >= 60.0 (60.0 itself and
\* arbitrarily high values) returns 255.
C2_AboveCeilingIsFull ==
    \A c \in Pair : Called(c) /\ FGe(temp[c], PwmCeiling) => duty[c] = 255

C2_Witness ==
    /\ \E c \in Pair : Called(c) /\ temp[c] = PwmCeiling /\ duty[c] = 255
    /\ \E c \in Pair : Called(c) /\ temp[c] = Inf(FALSE) /\ duty[c] = 255

\* (t - 40.0) * 12.75 in exact arithmetic, in units of 2^-20, for an f32 t
\* between 40.0 and 60.0 (such a t is a multiple of 2^-18).
ExactUnits(t) == (t.m * 2^(t.e + 18) - 40 * 2^18) * 51
Unit == 2^20
\* The ceiling of the exact product.
ExactCeil(t) == (ExactUnits(t) + Unit - 1) \div Unit

\* C3 as stated: between the thresholds get_pwm returns the ceiling of
\* (t - 40.0) * 12.75.
C3_ExactCeiling ==
    \A c \in Pair : Called(c) /\ OnRamp(temp[c]) => duty[c] = ExactCeil(temp[c])

\* Whether the exact product exceeds the integer below its ceiling by no more
\* than half a step of the f32 values at that integer, so that the f32
\* product is that integer.
RoundsOntoInteger(t) ==
    LET below == ExactCeil(t) - 1
        excess == ExactUnits(t) - below * Unit
    IN  below >= 1 /\ 32 * excess <= 2^BitLen(below)

\* C3 amended: between the thresholds get_pwm returns the ceiling of the
\* single-precision product (t - 40.0) * 12.75: the ceiling of the exact
\* product, or one less where the exact product exceeds an integer by at
\* most half an f32 step; 50.0 gives 128 and 59.9 gives 254.
C3_CeilingOfRoundedProduct ==
    \A c \in Pair :
        Called(c) /\ OnRamp(temp[c]) =>
            /\ duty[c] = IF RoundsOntoInteger(temp[c])
                         THEN ExactCeil(temp[c]) - 1
                         ELSE ExactCeil(temp[c])
            /\ temp[c] = F(50, 0) => duty[c] = 128
            /\ temp[c] = F(15702426, -18) => duty[c] = 254

C3_Witness ==
    /\ \E c \in Pair : Called(c) /\ temp[c] = F(11205371, -18) /\ duty[c] = 35
    /\ \E c \in Pair : Called(c) /\ temp[c] = F(15702426, -18) /\ duty[c] = 254

\* C4: between the thresholds get_pwm is non-decreasing: of two calls with
\* 40.0 < t1 <= t2 < 60.0 the second returns no less than the first.
C4_Monotone ==
    \A c1, c2 \in Pair :
        /\ Called(c1) /\ Called(c2)
        /\ OnRamp(temp[c1]) /\ OnRamp(temp[c2])
        /\ FLe(temp[c1], temp[c2])
        => duty[c1] <= duty[c2]

C4_Witness ==
    \E c1, c2 \in Pair :
        /\ Called(c1) /\ Called(c2)
        /\ OnRamp(temp[c1]) /\ OnRamp(temp[c2])
        /\ FLt(temp[c1], temp[c2])
        /\ duty[c1] < duty[c2]

\* The integer an integral, non-negative f32 below 2^24 stands for, -1 for
\* any other f32.
IntegerOf(a) ==
    IF ~IsFinite(a) THEN -1
    ELSE IF IsZero(a) THEN 0
    ELSE IF a.neg \/ a.e > 0 \/ -a.e >= MantBits THEN -1
    ELSE IF a.m % 2^(-a.e) # 0 THEN -1
    ELSE a.m \div 2^(-a.e)

\* C9: between the thresholds the rounded-up value lies in 1..255 and the
\* narrowing to u8 returns it unchanged; a temperature <= 40.0 gives 0 and
\* a temperature above 40.0 gives a non-zero duty cycle.
C9_RampFitsU8 ==
    \A c \in Pair :
        Called(c) =>
            /\ OnRamp(temp[c]) =>
                  /\ IntegerOf(Ramp(temp[c])) \in 1..255
                  /\ duty[c] = IntegerOf(Ramp(temp[c]))
            /\ FLe(temp[c], PwmFloor) => duty[c] = 0
            /\ FLt(PwmFloor, temp[c]) => duty[c] # 0

C9_Witness ==
    /\ \E c \in Pair : Called(c) /\ temp[c] = Step(PwmFloor, 1) /\ duty[c] = 1
    /\ \E c \in Pair : Called(c) /\ temp[c] = Step(PwmCeiling, -1) /\ duty[c] = 255

(***************************************************************************)
(* Properties of get_temp, checked under SpecTemp.                         *)
(***************************************************************************)
Positions(s, ch) == {i \in 1..Len(s) : s[i] = ch}
Max(S) == CHOOSE x \in S : \A y \in S : y <= x
Min(S) == CHOOSE x \in S : \A y \in S : x <= y

\* The text after the last '=' (from the start without one) up to the first
\* quote that follows (to the end without one), located by position.
Between(s) ==
    LET eq == IF Positions(s, "=") = {} THEN 0 ELSE Max(Positions(s, "="))
        quotes == {i \in Positions(s, "'") : i > eq}
        q == IF quotes = {} THEN Len(s) + 1 ELSE Min(quotes)
    IN  SubSeq(s, eq + 1, q - 1)

\* The number written between the last '=' and the first following quote.
Written(bytes) == parse_f32(trim(Between(from_utf8_lossy(bytes))))

\* C5: when the text between the last '=' and the first following quote,
\* trimmed, parses as a floating-point number, get_temp returns that number;
\* "temp=48.3'C\n" yields 48.3 (the nearest f32, 12661555 * 2^-18).
C5_ParsesLastSegment ==
    pc[1] = "returned" =>
        /\ Written(proc[1].stdout) # None =>
              ret[1] = Ok(Written(proc[1].stdout)[1])
        /\ proc[1].stdout = SampleWarm =>
              ret[1] = Ok([cls |-> "fin", neg |-> FALSE, m |-> 12661555, e |-> -18])

C5_Witness ==
    /\ pc[1] = "returned"
    /\ proc[1].stdout = SampleMulti
    /\ ret[1] = Ok(F(50, 0))

C7_ErrorIffNotLaunched ==
    pc[1] \in {"returned", "failed"} =>
        /\ ret[1].ok <=> proc[1].launched
        /\ ~proc[1].launched => ret[1] = Err("io::Error")
        /\ proc[1].launched => ret[1] = Ok(Rate(proc[1].stdout))

C7_Witness ==
    /\ pc[1] = "returned"
    /\ proc[1].status # 0
    /\ proc[1].stderr # <<>>
    /\ proc[1].stdout = SampleWarm
    /\ ret[1].ok

\* C10: every value get_temp returns on success is a finite number, never
\* NaN or an infinity.
C10_AlwaysFinite ==
    pc[1] = "returned" => IsFinite(ret[1].val)

(***************************************************************************)
(* Independence of invocations, checked under Spec.                        *)
(***************************************************************************)
\* C8: under every interleaving and after any earlier calls, what a
\* get_temp call returns is decided by the outcome of the process it
\* started itself, and what a get_pwm call returns by its own argument;
\* calls with equal inputs return equal results.
C8_Independent ==
    /\ \A c \in Threads :
          /\ pc[c] = "failed" => ~proc[c].launched /\ ret[c] = Err("io::Error")
          /\ pc[c] \in {"returned", "done"} =>
                proc[c].launched /\ ret[c] = Ok(Rate(proc[c].stdout))
          /\ pc[c] = "done" => duty[c] = get_pwm(temp[c])
    /\ \A c1, c2 \in Threads :
          /\ pc[c1] \in {"returned", "done"} /\ pc[c2] \in {"returned", "done"}
             /\ proc[c1].stdout = proc[c2].stdout => ret[c1] = ret[c2]
          /\ pc[c1] = "done" /\ pc[c2] = "done" /\ temp[c1] = temp[c2]
             => duty[c1] = duty[c2]

C8_Witness ==
    \E c1, c2 \in Threads :
        /\ pc[c1] = "captured" /\ pc[c2] = "done"
        /\ proc[c1].stdout = SampleWarm /\ proc[c2].stdout = SampleHot
        /\ duty[c2] = 254

=============================================================================
